---- MODULE Spec2Model ----
(***************************************************************************)
(* dynamics_solve and hamiltonian_solve of proj_4_module.py as a state     *)
(* machine.  One action per Python statement; the program counter pc is    *)
(* the source line about to execute ("L40" is line 40).  Floating point    *)
(* numbers are modelled as exact rationals <<numerator, denominator>> in   *)
(* lowest terms; a state of the phase space is a sequence of D rationals   *)
(* (the scalar case D = 1 is a sequence of length one).  Arrays T, S, Q, P *)
(* are functions on 0..N.                                                  *)
(***************************************************************************)
EXTENDS Integers, Sequences, FiniteSets

\* ------------------------------------------------------------------ bounds
MaxN == 2
MaxD == 2
LinearTestN == 7

\* ------------------------------------------------------- exact arithmetic
Abs(x) == IF x < 0 THEN -x ELSE x

RECURSIVE GCD(_, _)
GCD(a, b) == IF b = 0 THEN a ELSE GCD(b, a % b)

Norm(num, den) ==
    LET g == GCD(Abs(num), Abs(den))
        sg == IF den < 0 THEN -1 ELSE 1
    IN  <<sg * (num \div g), sg * (den \div g)>>

Rat(i) == <<i, 1>>
RZero == Rat(0)
Half == <<1, 2>>
Sixth == <<1, 6>>

RAdd(a, b) ==
    LET l == (a[2] \div GCD(a[2], b[2])) * b[2]
    IN  Norm(a[1] * (l \div a[2]) + b[1] * (l \div b[2]), l)

RNeg(a) == <<-a[1], a[2]>>

RMul(a, b) ==
    LET x == Norm(a[1], b[2])
        y == Norm(b[1], a[2])
    IN  <<x[1] * y[1], x[2] * y[2]>>

RECURSIVE RPow(_, _)
RPow(a, e) == IF e = 0 THEN Rat(1) ELSE RMul(a, RPow(a, e - 1))

\* elementwise numpy arithmetic on states
VAdd(a, b) == [i \in DOMAIN a |-> RAdd(a[i], b[i])]
VSub(a, b) == [i \in DOMAIN a |-> RAdd(a[i], RNeg(b[i]))]
VScale(r, a) == [i \in DOMAIN a |-> RMul(r, a[i])]
VShift(r, a) == [i \in DOMAIN a |-> RAdd(r, a[i])]
Zeros(dim) == [i \in 1..dim |-> RZero]
\* ------------------------------------------------------------ the inputs
Methods == {"Euler", "RK2", "RK4", "SE", "SV", "bogus"}
StepSizes == {Half, Rat(1)}
StartTimes == {Rat(0), Rat(1)}
Tenth == <<1, 10>>
\* a state of dimension dim built from a seed a: (a, 2a, ..., dim*a)
Vec(dim, a) == [i \in 1..dim |-> RMul(Rat(i), a)]

\* caller-supplied derivative functions f(t, s)
Derivatives == {"s", "t+s"}
f_call(fn, t, s) ==
    CASE fn = "s" -> s
      [] fn = "t+s" -> VShift(t, s)

\* caller-supplied partial derivatives of the Hamiltonian
\*   H = p^2/2 + q^2/2          : d_qH = q,          d_pH = p
\*   H = p^2/2 + q^2 + q*p + t*q : d_qH = 2q + p + t, d_pH = p + q
\* sig is the callable's signature: "qp" is def g(q, p), "qpt" is
\* def g(q, p, t), "qpt0" is def g(q, p, t = 0.0).
HamiltonianNames == {"osc", "mix"}
Signatures == {"qp", "qpt", "qpt0"}
Accepts(g, nargs) ==
    \/ g.sig = "qpt0"
    \/ g.sig = "qp" /\ nargs = 2
    \/ g.sig = "qpt" /\ nargs = 3
d_qH_call(g, q, p, t) ==
    CASE g.name = "osc" -> q
      [] g.name = "mix" -> VShift(t, VAdd(VScale(Rat(2), q), p))
d_pH_call(g, q, p, t) ==
    CASE g.name = "osc" -> p
      [] g.name = "mix" -> VAdd(p, q)

\* --------------------------------------------------------------- the state
VARIABLES
    entry,      \* which entry point was called
    f, D, s_0,                  \* arguments of dynamics_solve
    d_qH, d_pH, d, q_0, p_0,    \* arguments of hamiltonian_solve
    t_0, h, N, method,          \* arguments of both
    pc,         \* source line about to execute, "returned" or "raised"
    n, iter,    \* loop variable n and the position of range(N)
    T, S, Q, P, \* the arrays (<<>> while unbound)
    locals,     \* k1, k2, ... of the running step
    ncalls,     \* number of calls of f, d_qH, d_pH made so far
    log,        \* the array stores made so far, in order
    reads,      \* trajectory entries read since the loop head
    ran         \* the method branches whose test succeeded

args == <<entry, f, D, s_0, d_qH, d_pH, d, q_0, p_0, t_0, h, N, method>>
vars == <<args, pc, n, iter, T, S, Q, P, locals, ncalls, log, reads, ran>>

NoLocals == [x \in {} |-> RZero]
Bind(env, name, val) ==
    [x \in DOMAIN env \cup {name} |-> IF x = name THEN val ELSE env[x]]

InitControl ==
    /\ n = -1 /\ iter = 0
    /\ T = <<>> /\ S = <<>> /\ Q = <<>> /\ P = <<>>
    /\ locals = NoLocals
    /\ ncalls = 0 /\ log = <<>> /\ reads = {} /\ ran = {}

InitDynamics ==
    /\ entry = "dynamics_solve"
    /\ pc = "L28"
    /\ f \in Derivatives
    /\ D \in 1..MaxD
    /\ t_0 \in StartTimes
    /\ s_0 \in {Vec(D, a) : a \in {Rat(1), Rat(-2)}}
    /\ h \in StepSizes
    /\ N \in 0..MaxN
    /\ method \in Methods
    /\ d_qH = "none" /\ d_pH = "none" /\ d = 0 /\ q_0 = <<>> /\ p_0 = <<>>

\* the linear test: f(t, s) = s, s_0 = 1, h = 0.1, Euler
InitLinearTest ==
    /\ entry = "dynamics_solve"
    /\ pc = "L28"
    /\ f = "s" /\ D = 1 /\ t_0 = Rat(0) /\ s_0 = <<Rat(1)>> /\ h = Tenth
    /\ N \in 0..LinearTestN
    /\ method = "Euler"
    /\ d_qH = "none" /\ d_pH = "none" /\ d = 0 /\ q_0 = <<>> /\ p_0 = <<>>

InitHamiltonian ==
    /\ entry = "hamiltonian_solve"
    /\ pc = "L86"
    /\ \E nm \in HamiltonianNames, sg \in Signatures :
          /\ d_qH = [name |-> nm, sig |-> sg]
          /\ d_pH = [name |-> nm, sig |-> sg]
    /\ d \in 1..MaxD
    /\ t_0 \in StartTimes
    /\ q_0 \in {Vec(d, a) : a \in {Rat(0), Rat(1)}}
    /\ p_0 \in {Vec(d, a) : a \in {Rat(1), Rat(-2)}}
    /\ h \in StepSizes
    /\ N \in 0..MaxN
    /\ method \in Methods
    /\ f = "none" /\ D = 0 /\ s_0 = <<>>

\* ----------------------------------------------- statements of both bodies
\* the grid built over range(N) instead of range(N + 1)
TimeGrid_RangeN == [i \in 0..(N - 1) |-> RAdd(t_0, RMul(Rat(i), h))]

\* T = np.array([t_0 + n * h for n in range(N + 1)])
TimeGrid == [i \in 0..N |-> RAdd(t_0, RMul(Rat(i), h))]

\* np.zeros(N + 1) and np.zeros((N + 1, dim))
np_zeros(dim) == [i \in 0..N |-> Zeros(dim)]

control == <<n, iter, locals, ncalls, reads, ran>>

\* the last test of the chain written as an else branch
IfMethod_LastIsElse(l, m, head, next) ==
    /\ pc = l
    /\ IF method = m \/ next \in {"L56", "L151"}
         THEN pc' = head /\ iter' = 0 /\ ran' = ran \cup {m}
         ELSE pc' = next /\ UNCHANGED <<iter, ran>>
    /\ UNCHANGED <<args, n, T, S, Q, P, locals, ncalls, log, reads>>

\* if method == m:  (the for statement that follows starts range(N))
IfMethod(l, m, head, next) ==
    /\ pc = l
    /\ IF method = m
         THEN pc' = head /\ iter' = 0 /\ ran' = ran \cup {m}
         ELSE pc' = next /\ UNCHANGED <<iter, ran>>
    /\ UNCHANGED <<args, n, T, S, Q, P, locals, ncalls, log, reads>>

\* for n in range(N):
For(l, body, exit) ==
    /\ pc = l
    /\ IF iter < N
         THEN n' = iter /\ iter' = iter + 1 /\ pc' = body /\ reads' = {}
                /\ locals' = locals
         ELSE pc' = exit /\ UNCHANGED <<n, iter, reads, locals>>
    /\ UNCHANGED <<args, T, S, Q, P, ncalls, log, ran>>

\* k = <expression calling the derivative functions c times>
Local(l, name, val, rd, c, next) ==
    /\ pc = l
    /\ locals' = Bind(locals, name, val)
    /\ reads' = reads \cup rd
    /\ ncalls' = ncalls + c
    /\ pc' = next
    /\ UNCHANGED <<args, n, iter, T, S, Q, P, log, ran>>

\* ------------------------------------------------------- dynamics_solve
D28 ==
    /\ entry = "dynamics_solve" /\ pc = "L28"
    /\ T' = TimeGrid
    /\ pc' = "L30"
    /\ UNCHANGED <<args, S, Q, P, log, control>>

D30 ==
    /\ pc = "L30"
    /\ IF D = 1 THEN S' = np_zeros(1) ELSE S' = S
    /\ pc' = "L33"
    /\ UNCHANGED <<args, T, Q, P, log, control>>

D33 ==
    /\ pc = "L33"
    /\ IF D > 1 THEN S' = np_zeros(D) ELSE S' = S
    /\ pc' = "L36"
    /\ UNCHANGED <<args, T, Q, P, log, control>>

D36 ==
    /\ pc = "L36"
    /\ S' = [S EXCEPT ![0] = s_0]
    /\ log' = Append(log, <<"S", 0>>)
    /\ pc' = "L38"
    /\ UNCHANGED <<args, T, Q, P, control>>

\* the update stored in place: S[n] = S[n] + <increment>
StoreS_InPlace(l, incr, c, next) ==
    /\ pc = l
    /\ S' = [S EXCEPT ![n] = VAdd(S[n], incr)]
    /\ log' = Append(log, <<"S", n>>)
    /\ reads' = reads \cup {<<"S", n>>}
    /\ ncalls' = ncalls + c
    /\ pc' = next
    /\ UNCHANGED <<args, n, iter, T, Q, P, locals, ran>>

\* S[n + 1] = S[n] + <increment>
StoreS(l, incr, c, next) ==
    /\ pc = l
    /\ S' = [S EXCEPT ![n + 1] = VAdd(S[n], incr)]
    /\ log' = Append(log, <<"S", n + 1>>)
    /\ reads' = reads \cup {<<"S", n>>}
    /\ ncalls' = ncalls + c
    /\ pc' = next
    /\ UNCHANGED <<args, n, iter, T, Q, P, locals, ran>>

\* Euler increment with the step size forgotten
Euler_step_NoH == f_call(f, T[n], S[n])
Euler_step == VScale(h, f_call(f, T[n], S[n]))
D38 == IfMethod("L38", "Euler", "L39", "L42")
D39 == For("L39", "L40", "L42")
D40 == StoreS("L40", Euler_step, 1, "L39")

RK_k1 == VScale(h, f_call(f, T[n], S[n]))
\* second stage evaluated at the start of the step instead of the midpoint
RK_k2_AtStart ==
    VScale(h, f_call(f, T[n], VAdd(S[n], VScale(Half, locals.k1))))
RK_k2 == VScale(h, f_call(f, RAdd(T[n], RMul(Half, h)),
                          VAdd(S[n], VScale(Half, locals.k1))))
RK_k3 == VScale(h, f_call(f, RAdd(T[n], RMul(Half, h)),
                          VAdd(S[n], VScale(Half, locals.k2))))
RK_k4 == VScale(h, f_call(f, T[n], VAdd(S[n], locals.k3)))
RK4_incr ==
    VScale(Sixth, VAdd(VAdd(VAdd(locals.k1, VScale(Rat(2), locals.k2)),
                            VScale(Rat(2), locals.k3)), locals.k4))

D42 == IfMethod("L42", "RK2", "L43", "L48")
D43 == For("L43", "L44", "L48")
D44 == Local("L44", "k1", RK_k1, {<<"S", n>>}, 1, "L45")
D45 == Local("L45", "k2", RK_k2, {<<"S", n>>}, 1, "L46")
D46 == StoreS("L46", locals.k2, 0, "L43")

D48 == IfMethod("L48", "RK4", "L49", "L56")
D49 == For("L49", "L50", "L56")
D50 == Local("L50", "k1", RK_k1, {<<"S", n>>}, 1, "L51")
D51 == Local("L51", "k2", RK_k2, {<<"S", n>>}, 1, "L52")
D52 == Local("L52", "k3", RK_k3, {<<"S", n>>}, 1, "L53")
D53 == Local("L53", "k4", RK_k4, {<<"S", n>>}, 1, "L54")
D54 == StoreS("L54", RK4_incr, 0, "L49")

D56 ==
    /\ pc = "L56"
    /\ pc' = "returned"
    /\ UNCHANGED <<args, T, S, Q, P, log, control>>

dynamics_solve ==
    \/ D28 \/ D30 \/ D33 \/ D36
    \/ D38 \/ D39 \/ D40
    \/ D42 \/ D43 \/ D44 \/ D45 \/ D46
    \/ D48 \/ D49 \/ D50 \/ D51 \/ D52 \/ D53 \/ D54
    \/ D56

\* ------------------------------------------------------ hamiltonian_solve
\* k = <expression calling g with nargs arguments>; a call the callable's
\* signature does not accept raises TypeError
HLocal(l, g, nargs, name, val, rd, next) ==
    /\ pc = l
    /\ IF Accepts(g, nargs)
         THEN /\ locals' = Bind(locals, name, val)
              /\ reads' = reads \cup rd
              /\ ncalls' = ncalls + 1
              /\ pc' = next
         ELSE /\ pc' = "raised"
              /\ UNCHANGED <<locals, reads, ncalls>>
    /\ UNCHANGED <<args, n, iter, T, S, Q, P, log, ran>>

\* arr[n + 1] = <expression making c calls of g with nargs arguments>
HStore(l, g, nargs, c, arr, val, rd, next) ==
    /\ pc = l
    /\ IF c = 0 \/ Accepts(g, nargs)
         THEN /\ IF arr = "Q"
                   THEN Q' = [Q EXCEPT ![n + 1] = val] /\ P' = P
                   ELSE P' = [P EXCEPT ![n + 1] = val] /\ Q' = Q
              /\ log' = Append(log, <<arr, n + 1>>)
              /\ reads' = reads \cup rd
              /\ ncalls' = ncalls + c
              /\ pc' = next
         ELSE /\ pc' = "raised"
              /\ UNCHANGED <<Q, P, log, reads, ncalls>>
    /\ UNCHANGED <<args, n, iter, T, S, locals, ran>>

H86 ==
    /\ entry = "hamiltonian_solve" /\ pc = "L86"
    /\ T' = TimeGrid
    /\ pc' = "L88"
    /\ UNCHANGED <<args, S, Q, P, log, control>>

H88 ==
    /\ pc = "L88"
    /\ IF d = 1 THEN P' = np_zeros(1) /\ Q' = np_zeros(1)
                ELSE P' = P /\ Q' = Q
    /\ pc' = "L92"
    /\ UNCHANGED <<args, T, S, log, control>>

H92 ==
    /\ pc = "L92"
    /\ IF d > 1 THEN P' = np_zeros(d) /\ Q' = np_zeros(d)
                ELSE P' = P /\ Q' = Q
    /\ pc' = "L96"
    /\ UNCHANGED <<args, T, S, log, control>>

H96 ==
    /\ pc = "L96"
    /\ P' = [P EXCEPT ![0] = p_0]
    /\ log' = Append(log, <<"P", 0>>)
    /\ pc' = "L97"
    /\ UNCHANGED <<args, T, S, Q, control>>

H97 ==
    /\ pc = "L97"
    /\ Q' = [Q EXCEPT ![0] = q_0]
    /\ log' = Append(log, <<"Q", 0>>)
    /\ pc' = "L99"
    /\ UNCHANGED <<args, T, S, P, control>>

Qn == {<<"Q", n>>}
Pn == {<<"P", n>>}
QPn == {<<"Q", n>>, <<"P", n>>}
Qn1Pn == {<<"Q", n + 1>>, <<"P", n>>}

\* the two-argument calls d_pH(q, p), d_qH(q, p)
d_pH2(q, p) == d_pH_call(d_pH, q, p, RZero)
d_qH2(q, p) == d_qH_call(d_qH, q, p, RZero)

HEuler_Q == VAdd(Q[n], VScale(h, d_pH2(Q[n], P[n])))
HEuler_P == VSub(P[n], VScale(h, d_qH2(Q[n], P[n])))
H99 == IfMethod("L99", "Euler", "L100", "L106")
H100 == For("L100", "L101", "L106")
H101 == HStore("L101", d_pH, 2, 1, "Q", HEuler_Q, QPn, "L102")
H102 == HStore("L102", d_qH, 2, 1, "P", HEuler_P, QPn, "L100")

k1_Q == VScale(h, d_pH2(Q[n], P[n]))
k1_P == VScale(RNeg(h), d_qH2(Q[n], P[n]))
k2_Q == VScale(h, d_pH2(VAdd(Q[n], VScale(Half, locals.k1_Q)),
                        VAdd(P[n], VScale(Half, locals.k1_Q))))
k2_P == VScale(RNeg(h), d_qH2(VAdd(Q[n], VScale(Half, locals.k1_P)),
                              VAdd(P[n], VScale(Half, locals.k1_P))))
k3_Q == VScale(h, d_pH2(VAdd(Q[n], VScale(Half, locals.k2_Q)),
                        VAdd(P[n], VScale(Half, locals.k2_Q))))
k3_P == VScale(RNeg(h), d_qH2(VAdd(Q[n], VScale(Half, locals.k2_P)),
                              VAdd(P[n], VScale(Half, locals.k2_P))))
k4_Q == VScale(h, d_pH2(VShift(h, Q[n]), VAdd(P[n], locals.k3_Q)))
k4_P == VScale(RNeg(h), d_qH2(VShift(h, Q[n]), VAdd(P[n], locals.k3_P)))
Weighted(a, b, c, e) ==
    VScale(Sixth, VAdd(VAdd(VAdd(a, VScale(Rat(2), b)), VScale(Rat(2), c)), e))
HRK4_Q == VAdd(Q[n], Weighted(locals.k1_Q, locals.k2_Q, locals.k3_Q, locals.k4_Q))
HRK4_P == VAdd(P[n], Weighted(locals.k1_P, locals.k2_P, locals.k3_P, locals.k4_P))

H106 == IfMethod("L106", "RK2", "L107", "L119")
H107 == For("L107", "L108", "L119")
H108 == HLocal("L108", d_pH, 2, "k1_Q", k1_Q, QPn, "L109")
H109 == HLocal("L109", d_qH, 2, "k1_P", k1_P, QPn, "L111")
H111 == HLocal("L111", d_pH, 2, "k2_Q", k2_Q, QPn, "L112")
H112 == HLocal("L112", d_qH, 2, "k2_P", k2_P, QPn, "L114")
H114 == HStore("L114", d_pH, 2, 0, "Q", VAdd(Q[n], locals.k2_Q), Qn, "L115")
H115 == HStore("L115", d_qH, 2, 0, "P", VAdd(P[n], locals.k2_P), Pn, "L107")

H119 == IfMethod("L119", "RK4", "L120", "L138")
H120 == For("L120", "L121", "L138")
H121 == HLocal("L121", d_pH, 2, "k1_Q", k1_Q, QPn, "L122")
H122 == HLocal("L122", d_qH, 2, "k1_P", k1_P, QPn, "L124")
H124 == HLocal("L124", d_pH, 2, "k2_Q", k2_Q, QPn, "L125")
H125 == HLocal("L125", d_qH, 2, "k2_P", k2_P, QPn, "L127")
H127 == HLocal("L127", d_pH, 2, "k3_Q", k3_Q, QPn, "L128")
H128 == HLocal("L128", d_qH, 2, "k3_P", k3_P, QPn, "L130")
H130 == HLocal("L130", d_pH, 2, "k4_Q", k4_Q, QPn, "L131")
H131 == HLocal("L131", d_qH, 2, "k4_P", k4_P, QPn, "L133")
H133 == HStore("L133", d_pH, 2, 0, "Q", HRK4_Q, Qn, "L134")
H134 == HStore("L134", d_qH, 2, 0, "P", HRK4_P, Pn, "L120")

SE_Q == VAdd(Q[n], VScale(h, d_pH_call(d_pH, Q[n], P[n], T[n])))
\* explicit Euler momentum update: the old position Q[n] is used
SE_P_OldQ == VSub(P[n], VScale(h, d_qH_call(d_qH, Q[n], P[n], T[n])))
SE_P == VSub(P[n], VScale(h, d_qH_call(d_qH, Q[n + 1], P[n], T[n])))
H138 == IfMethod("L138", "SE", "L139", "L145")
H139 == For("L139", "L140", "L145")
H140 == HStore("L140", d_pH, 3, 1, "Q", SE_Q, QPn, "L141")
H141 == HStore("L141", d_qH, 3, 1, "P", SE_P, Qn1Pn, "L139")

SV_k1 == VSub(P[n], VScale(RMul(h, Half), d_qH_call(d_qH, Q[n], P[n], T[n])))
SV_Q == VAdd(Q[n], VScale(h, d_pH_call(d_pH, Q[n], locals.k1, T[n])))
\* textbook leapfrog: the final force is evaluated with k1, not P[n]
SV_P_HalfStepMomentum ==
    VSub(locals.k1,
         VScale(RMul(h, Half), d_qH_call(d_qH, Q[n + 1], locals.k1, T[n])))
SV_P == VSub(locals.k1,
             VScale(RMul(h, Half), d_qH_call(d_qH, Q[n + 1], P[n], T[n])))
H145 == IfMethod("L145", "SV", "L146", "L151")
H146 == For("L146", "L147", "L151")
H147 == HLocal("L147", d_qH, 3, "k1", SV_k1, QPn, "L148")
H148 == HStore("L148", d_pH, 3, 1, "Q", SV_Q, Qn, "L149")
H149 == HStore("L149", d_qH, 3, 1, "P", SV_P, Qn1Pn, "L146")

H151 ==
    /\ pc = "L151"
    /\ pc' = "returned"
    /\ UNCHANGED <<args, T, S, Q, P, log, control>>

hamiltonian_solve ==
    \/ H86 \/ H88 \/ H92 \/ H96 \/ H97
    \/ H99 \/ H100 \/ H101 \/ H102
    \/ H106 \/ H107 \/ H108 \/ H109 \/ H111 \/ H112 \/ H114 \/ H115
    \/ H119 \/ H120 \/ H121 \/ H122 \/ H124 \/ H125 \/ H127 \/ H128
    \/ H130 \/ H131 \/ H133 \/ H134
    \/ H138 \/ H139 \/ H140 \/ H141
    \/ H145 \/ H146 \/ H147 \/ H148 \/ H149
    \/ H151

Init == InitControl /\ (InitDynamics \/ InitLinearTest \/ InitHamiltonian)
Next == dynamics_solve \/ hamiltonian_solve
Spec == Init /\ [][Next]_vars
\* ======================================================== the properties
Written(arr, i) == \E j \in DOMAIN log : log[j] = <<arr, i>>
Dyn(m) == entry = "dynamics_solve" /\ method = m
Ham(m) == entry = "hamiltonian_solve" /\ method = m
HalfStep(t) == RAdd(t, RMul(Half, h))

\* the classical four-stage scheme of section 4.1 for ds/dt = f(t, s)
Classical_k1(t, s) == VScale(h, f_call(f, t, s))
Classical_k2(t, s) ==
    VScale(h, f_call(f, HalfStep(t), VAdd(s, VScale(Half, Classical_k1(t, s)))))
Classical_k3(t, s) ==
    VScale(h, f_call(f, HalfStep(t), VAdd(s, VScale(Half, Classical_k2(t, s)))))
Classical_k4(t, s) ==
    VScale(h, f_call(f, RAdd(t, h), VAdd(s, Classical_k3(t, s))))
ClassicalRK4(t, s) ==
    VAdd(s, Weighted(Classical_k1(t, s), Classical_k2(t, s),
                     Classical_k3(t, s), Classical_k4(t, s)))

\* C1: dynamics_solve with method "RK4" computes every S[n+1] by the
\* classical scheme, whose fourth stage is evaluated at time T[n] + h.
C1_RK4FourthStageAtEndOfStep ==
    Dyn("RK4") =>
        \A i \in 0..(N - 1) :
            Written("S", i + 1) => S[i + 1] = ClassicalRK4(T[i], S[i])

\* the section 4.1 schemes applied to the coupled state (q, p) with
\* derivative (d_pH(q, p), -d_qH(q, p)); a stage is the pair of increments
CoupledStage(q, p) ==
    [Q |-> VScale(h, d_pH2(q, p)), P |-> VScale(RNeg(h), d_qH2(q, p))]
MidPoint(q, p, k) ==
    CoupledStage(VAdd(q, VScale(Half, k.Q)), VAdd(p, VScale(Half, k.P)))
EndPoint(q, p, k) == CoupledStage(VAdd(q, k.Q), VAdd(p, k.P))
CoupledRK2(q, p) ==
    LET c1 == CoupledStage(q, p)
        c2 == MidPoint(q, p, c1)
    IN  [Q |-> VAdd(q, c2.Q), P |-> VAdd(p, c2.P)]
CoupledRK4(q, p) ==
    LET c1 == CoupledStage(q, p)
        c2 == MidPoint(q, p, c1)
        c3 == MidPoint(q, p, c2)
        c4 == EndPoint(q, p, c3)
    IN  [Q |-> VAdd(q, Weighted(c1.Q, c2.Q, c3.Q, c4.Q)),
         P |-> VAdd(p, Weighted(c1.P, c2.P, c3.P, c4.P))]

\* C2: hamiltonian_solve with method "RK2" produces the (Q, P) of the
\* section 4.1 RK2 scheme on the coupled state: both second-stage
\* derivatives are taken at (Q[n] + k1_Q/2, P[n] + k1_P/2).
C2_HamiltonianRK2IsCoupledRK2 ==
    Ham("RK2") =>
        \A i \in 0..(N - 1) :
            /\ Written("Q", i + 1) => Q[i + 1] = CoupledRK2(Q[i], P[i]).Q
            /\ Written("P", i + 1) => P[i + 1] = CoupledRK2(Q[i], P[i]).P

\* C3: hamiltonian_solve with method "RK4" produces the (Q, P) of the
\* classical RK4 scheme on the coupled state (q, p).
C3_HamiltonianRK4IsCoupledRK4 ==
    Ham("RK4") =>
        \A i \in 0..(N - 1) :
            /\ Written("Q", i + 1) => Q[i + 1] = CoupledRK4(Q[i], P[i]).Q
            /\ Written("P", i + 1) => P[i + 1] = CoupledRK4(Q[i], P[i]).P
Before(a, b) ==
    \E j, k \in DOMAIN log : j < k /\ log[j] = a /\ log[k] = b

\* C4: hamiltonian_solve with method "SV": k1 = P[n] - (h/2) d_qH(Q[n], P[n],
\* T[n]), Q[n+1] = Q[n] + h d_pH(Q[n], k1, T[n]) and P[n+1] = k1 - (h/2)
\* d_qH(Q[n+1], P[n], T[n]): the last call gets the new Q[n+1], the old P[n]
\* and the old time T[n].
C4_StormerVerletStep ==
    Ham("SV") =>
        \A i \in 0..(N - 1) :
            LET halfP == VSub(P[i], VScale(RMul(Half, h),
                                 d_qH_call(d_qH, Q[i], P[i], T[i])))
            IN  /\ Written("Q", i + 1) =>
                     Q[i + 1] = VAdd(Q[i], VScale(h,
                                   d_pH_call(d_pH, Q[i], halfP, T[i])))
                /\ Written("P", i + 1) =>
                     P[i + 1] = VSub(halfP, VScale(RMul(Half, h),
                                   d_qH_call(d_qH, Q[i + 1], P[i], T[i])))
C4_Witness ==
    /\ Ham("SV") /\ pc = "returned" /\ N >= 2 /\ d_qH.name = "mix"
    /\ Written("P", N)
    /\ locals.k1 /= P[N - 1]

\* C5: hamiltonian_solve with method "SE": Q[n+1] = Q[n] + h d_pH(Q[n], P[n],
\* T[n]) is stored first, and P[n+1] = P[n] - h d_qH(Q[n+1], P[n], T[n]) is
\* then computed from the stored Q[n+1], never from Q[n].
C5_SymplecticEulerOrder ==
    Ham("SE") =>
        \A i \in 0..(N - 1) :
            /\ Written("Q", i + 1) =>
                 Q[i + 1] = VAdd(Q[i], VScale(h,
                               d_pH_call(d_pH, Q[i], P[i], T[i])))
            /\ Written("P", i + 1) =>
                 /\ Before(<<"Q", i + 1>>, <<"P", i + 1>>)
                 /\ P[i + 1] = VSub(P[i], VScale(h,
                                  d_qH_call(d_qH, Q[i + 1], P[i], T[i])))
C5_Witness ==
    /\ Ham("SE") /\ pc = "returned" /\ N >= 2
    /\ Written("P", N)
    /\ Q[N] /= Q[N - 1]

\* C8: dynamics_solve with method "Euler": S[n+1] = S[n] + h f(T[n], S[n]);
\* for f(t, s) = s this gives S[n] = s_0 (1 + h)^n, and with s_0 = 1 and
\* h = 0.1 the entry S[n] is 11^n / 10^n.
C8_EulerStep ==
    Dyn("Euler") =>
        \A i \in 0..N :
            Written("S", i) =>
                /\ i > 0 =>
                     S[i] = VAdd(S[i - 1],
                                 VScale(h, f_call(f, T[i - 1], S[i - 1])))
                /\ f = "s" => S[i] = VScale(RPow(RAdd(Rat(1), h), i), s_0)
                /\ (f = "s" /\ s_0 = <<Rat(1)>> /\ h = Tenth) =>
                     S[i] = <<(<<11 ^ i, 10 ^ i>>)>>
C8_Witness ==
    /\ Dyn("Euler") /\ pc = "returned"
    /\ f = "s" /\ s_0 = <<Rat(1)>> /\ h = Tenth /\ N = LinearTestN
    /\ Written("S", N)

\* C9: dynamics_solve with method "RK2": S[n+1] = S[n] + k2 where
\* k1 = h f(T[n], S[n]) and k2 = h f(T[n] + h/2, S[n] + k1/2).
C9_RK2Step ==
    Dyn("RK2") =>
        \A i \in 0..(N - 1) :
            Written("S", i + 1) =>
                S[i + 1] = VAdd(S[i], Classical_k2(T[i], S[i]))
C9_Witness ==
    /\ Dyn("RK2") /\ pc = "returned" /\ N >= 2 /\ f = "t+s"
    /\ Written("S", N)
Recognized ==
    \/ entry = "dynamics_solve" /\ method \in {"Euler", "RK2", "RK4"}
    \/ entry = "hamiltonian_solve" /\ method \in {"Euler", "RK2", "RK4", "SE", "SV"}
Arrays == IF entry = "dynamics_solve" THEN {"S"} ELSE {"Q", "P"}
Arr(a) == CASE a = "S" -> S [] a = "Q" -> Q [] a = "P" -> P
Start(a) == CASE a = "S" -> s_0 [] a = "Q" -> q_0 [] a = "P" -> p_0
Dim == IF entry = "dynamics_solve" THEN D ELSE d
\* x is the rational t_0 + i*h, in lowest terms
IsGridTime(x, i) ==
    /\ x[2] > 0 /\ GCD(Abs(x[1]), x[2]) = 1
    /\ x[1] * (t_0[2] * h[2]) = x[2] * (t_0[1] * h[2] + i * h[1] * t_0[2])
FullGrid == DOMAIN T = 0..N /\ \A i \in 0..N : IsGridTime(T[i], i)

\* C6: a call with a method name outside the recognized set does not fail,
\* never calls a derivative function, and returns the full time grid, the
\* initial state at index 0 and zero at every index 1..N.
C6_UnknownMethodLeavesZeros ==
    ~Recognized =>
        /\ pc /= "raised"
        /\ ncalls = 0
        /\ pc = "returned" =>
             /\ FullGrid
             /\ \A a \in Arrays :
                  /\ DOMAIN Arr(a) = 0..N
                  /\ Arr(a)[0] = Start(a)
                  /\ \A i \in 1..N : Arr(a)[i] = Zeros(Dim)
C6_Witness ==
    /\ Ham("bogus") /\ pc = "returned" /\ N >= 2
    /\ d_qH.sig = "qpt" /\ p_0 /= Zeros(d)

\* C7: for every N >= 0, D >= 1 and method value, the returned time grid has
\* exactly N+1 entries with T[n] = t_0 + n*h, and every returned trajectory
\* has exactly N+1 entries; for N = 0 the result is T = [t_0] and the
\* initial state.
C7_GridAndLengths ==
    pc = "returned" =>
        /\ FullGrid
        /\ \A a \in Arrays : DOMAIN Arr(a) = 0..N
        /\ N = 0 => /\ T = [i \in {0} |-> t_0]
                    /\ \A a \in Arrays : Arr(a) = [i \in {0} |-> Start(a)]
C7_Witness ==
    /\ pc = "returned" /\ N >= 2 /\ Dim >= 2
    /\ t_0 /= RZero /\ h = Half /\ T[N] = RAdd(t_0, Rat(1))

\* C10: with a recognized method the buffers are filled left to right: index
\* 0 holds the initial state and is never overwritten, each index 1..N is
\* written once, in increasing order, the step writing index n+1 reads only
\* index n (and, for SE/SV, the Q[n+1] it has just written), entries not yet
\* written are zero, T stays as built, and exactly one method branch runs.
C10_LeftToRightFill ==
    Recognized =>
        /\ \A j, k \in DOMAIN log :
             (j < k /\ log[j][1] = log[k][1]) => log[j][2] < log[k][2]
        /\ \A a \in Arrays : \A i \in 0..N :
             /\ (Written(a, i) /\ i > 0) => Written(a, i - 1)
             /\ Written(a, 0) => Arr(a)[0] = Start(a)
             /\ (DOMAIN Arr(a) = 0..N /\ ~Written(a, i)) => Arr(a)[i] = Zeros(Dim)
             /\ pc = "returned" => Written(a, i)
        /\ \A j \in DOMAIN log : log[j][1] \in Arrays /\ log[j][2] \in 0..N
        /\ \A r \in reads :
             \/ r[2] = n
             \/ /\ r = <<"Q", n + 1>>
                /\ method \in {"SE", "SV"}
                /\ Written("Q", n + 1)
        /\ pc \notin {"L28", "L86"} => FullGrid
        /\ ran \subseteq {method}
        /\ pc = "returned" => ran = {method}
C10_Witness ==
    /\ Ham("SV") /\ pc = "L149" /\ n = 1 /\ N >= 2
    /\ Written("Q", 2) /\ ~Written("P", 2)
    /\ <<"Q", 2>> \notin reads
====
